---- MODULE Spec2Model ----
(***************************************************************************)
(* Model of ash's src/util.rs: the alignment-aware writers                 *)
(*   AlignByteSlice  (spec: RawAligner)    copy_from_slices                *)
(*   Align<T>        (spec: TypedAligner)  new, copy_from_slice, iter_mut  *)
(*   AlignIter<T>    (spec: ElementCursor) next                            *)
(*   calc_padding    (spec: pad)                                           *)
(*                                                                         *)
(* Memory is a map from byte offsets (relative to the aligner's ptr) to    *)
(* byte values; the region is the offsets 0 .. size-1.  A raw copy that    *)
(* touches an offset >= size is undefined behaviour: depending on what     *)
(* lies behind the region (variable adjacent) the bytes land in the        *)
(* neighbouring memory or the process is killed by a memory fault.         *)
(***************************************************************************)
EXTENDS Integers, Sequences, FiniteSets, TLC

\* ---------------------------------------------------------------- bounds
\* alignments are 1 .. MaxAlign (the callers pass a positive alignment; with 0
\* every `% alignment` panics), region sizes 0 .. MaxSize
MaxSize == 12
MaxAlign == 4
MaxChunks == 3
MaxChunkLen == 3
MaxElem == 4
MaxN == 3
MaxVal == 2
MaxNext == 4
WordBits == 5

VARIABLES
    mem,        \* written bytes: offset -> byte value (unwritten offsets are Untouched)
    adjacent,   \* "mapped" | "unmapped": what lies behind the region
    pc,         \* position of the caller / of the running call
    raw,        \* AlignByteSlice { alignment, size } (ptr is offset 0 of mem)
    slices,     \* copy_from_slices: the argument
    idx,        \* copy_from_slices: position of the for loop (1-based)
    current,    \* copy_from_slices: the local `current`
    starts,     \* history: the offset each chunk of this call was copied to
    returned,   \* history: the earlier calls that returned: slices, starts, mem, raw
    tsz,        \* size_of::<T>()
    al,         \* Align<T> { elem_size, size }
    newArgs,    \* Align::new: the arguments { alignment, size } of the call
    arg,        \* copy_from_slice: the argument of the last call
    pre,        \* history: mem before the last copy_from_slice call
    it,         \* AlignIter { current }, or NoIter
    yields,     \* history: the offsets the cursor yielded, in order
    last,       \* result of the last next(): an offset, or None
    nnext,      \* number of next() calls on the cursor
    cursors,    \* number of cursors iter_mut has created
    adr,        \* calc_padding: argument adr
    align,      \* calc_padding: argument align
    padding,    \* calc_padding: result, or None before the call
    underflow   \* calc_padding: whether `align - adr % align` wrapped

vars == <<mem, adjacent, pc, raw, slices, idx, current, starts, returned, tsz, al, newArgs,
          arg, pre, it, yields, last, nnext, cursors, adr, align, padding, underflow>>

rawVars == <<raw, slices, idx, current, starts, returned>>
typedVars == <<tsz, al, newArgs, arg, pre>>
iterVars == <<it, yields, last, nnext, cursors>>
padVars == <<adr, align, padding, underflow>>

None == -1
NoIter == [current |-> None]
NoAlign == [elem_size |-> None, size |-> None]
NoRaw == [alignment |-> None, size |-> None]

\* ---------------------------------------------------------------- memory
Untouched == 0
EmptyMem == [o \in {} |-> Untouched]

Load(m, o) == IF o \in DOMAIN m THEN m[o] ELSE Untouched

\* slice::copy_from_slice / `*val = x` on raw memory: bytes[1..n] to off..off+n-1
Store(m, off, bytes) ==
    [o \in DOMAIN m \cup {off + j - 1 : j \in 1..Len(bytes)} |->
        IF o >= off /\ o < off + Len(bytes) THEN bytes[o - off + 1] ELSE m[o]]

\* the bytes of the region, offsets 0 .. size-1
Region(m, size) == [o \in 0..(size - 1) |-> Load(m, o)]

\* a copy of len bytes to off leaves the region of `size` bytes
Overruns(off, len, size) == len > 0 /\ off + len > size

\* the part of bytes that still lies inside the region
InRegionPart(off, bytes, size) ==
    IF off >= size THEN << >>
    ELSE SubSeq(bytes, 1, IF size - off < Len(bytes) THEN size - off ELSE Len(bytes))

\* ------------------------------------------------------- padding (u64, scaled)
Word == 2 ^ WordBits

\* unsigned subtraction as the release build computes it
WrappingSub(a, b) == (a - b) % Word

\* faulty variant: the outer `% align` is forgotten
calc_padding_no_outer_mod(a, n) == WrappingSub(n, a % n)

calc_padding(a, n) == WrappingSub(n, a % n) % n

\* `align - adr % align` in u64: the checked subtraction would overflow
SubUnderflows(a, b) == a < b

\* ================================================================ pad
\* calc_padding applied to every address and alignment of the (scaled) word

IdleRaw ==
    /\ raw = NoRaw /\ slices = << >> /\ idx = 0 /\ current = 0 /\ starts = << >>
    /\ returned = << >>
IdleTyped == /\ tsz = 0 /\ al = NoAlign /\ newArgs = NoRaw /\ arg = << >> /\ pre = EmptyMem
IdleIter == /\ it = NoIter /\ yields = << >> /\ last = None /\ nnext = 0 /\ cursors = 0
IdlePad == /\ adr = 0 /\ align = 1 /\ padding = None /\ underflow = FALSE

InitPad ==
    /\ adr \in 0..(Word - 1)
    /\ align \in 1..(Word - 1)
    /\ padding = None /\ underflow = FALSE
    /\ mem = EmptyMem /\ adjacent = "mapped" /\ pc = "pad"
    /\ IdleRaw /\ IdleTyped /\ IdleIter

CalcPadding ==
    /\ pc = "pad" /\ padding = None
    /\ padding' = calc_padding(adr, align)
    /\ underflow' = SubUnderflows(align, adr % align)
    /\ UNCHANGED <<mem, adjacent, pc, adr, align, rawVars, typedVars, iterVars>>

NextPad == CalcPadding

SpecPad == InitPad /\ [][NextPad]_vars

\* ================================================================ RawAligner
AlignByteSlice_new(alignment, size) == [alignment |-> alignment, size |-> size]

\* the bytes of chunk k of a call: distinct per chunk and per position
ChunkBytes(k, len) == [j \in 1..len |-> 10 * k + j]

ChunkLists ==
    UNION {{[k \in 1..n |-> ChunkBytes(k, lens[k])] : lens \in [1..n -> 0..MaxChunkLen]}
           : n \in 0..MaxChunks}

InitRaw ==
    /\ \E a \in 1..MaxAlign, s \in 0..MaxSize : raw = AlignByteSlice_new(a, s)
    /\ slices = << >> /\ idx = 0 /\ current = 0 /\ starts = << >> /\ returned = << >>
    /\ mem = EmptyMem /\ adjacent \in {"mapped", "unmapped"} /\ pc = "idle"
    /\ IdleTyped /\ IdleIter /\ IdlePad

\* `let mut current = 0; for slice in slices`
CopyFromSlicesCall ==
    /\ pc = "idle"
    /\ \E chunks \in ChunkLists : slices' = chunks
    /\ idx' = 1 /\ current' = 0 /\ starts' = << >>
    /\ pc' = "loop"
    /\ UNCHANGED <<mem, adjacent, raw, returned, typedVars, iterVars, padVars>>

\* faulty variant: only the padding is added, `current += slice.len()` is lost
AdvanceCursor_padding_only(cur, len, alignment) == cur + ((cur + len) % alignment)

\* `current += slice.len(); let padding = current % self.alignment; current += padding`
AdvanceCursor(cur, len, alignment) ==
    LET c == cur + len IN c + (c % alignment)

\* one iteration of the loop body
CopyFromSlicesStep ==
    /\ pc = "loop" /\ idx <= Len(slices)
    /\ LET slice == slices[idx] IN
       IF ~(current <= raw.size)
       THEN \* assert!(current <= self.size) panics
            /\ pc' = "panicked"
            /\ UNCHANGED <<mem, idx, current, starts>>
       ELSE IF Overruns(current, Len(slice), raw.size) /\ adjacent = "unmapped"
       THEN \* the copy leaves the region and nothing is mapped there
            /\ pc' = "killed"
            /\ \E w \in BOOLEAN :
                 mem' = IF w THEN Store(mem, current, InRegionPart(current, slice, raw.size))
                        ELSE mem
            /\ UNCHANGED <<idx, current, starts>>
       ELSE /\ mem' = Store(mem, current, slice)
            /\ starts' = Append(starts, current)
            /\ current' = AdvanceCursor(current, Len(slice), raw.alignment)
            /\ idx' = idx + 1
            /\ pc' = pc
    /\ UNCHANGED <<adjacent, raw, slices, returned, typedVars, iterVars, padVars>>

\* the loop is exhausted: the call returns
CopyFromSlicesReturn ==
    /\ pc = "loop" /\ idx > Len(slices)
    /\ pc' = "done"
    /\ UNCHANGED <<mem, adjacent, rawVars, typedVars, iterVars, padVars>>

NextRaw == CopyFromSlicesCall \/ CopyFromSlicesStep \/ CopyFromSlicesReturn

SpecRaw == InitRaw /\ [][NextRaw]_vars

\* ---------------------------------------------------------------- two calls
\* a second copy_from_slices call on the same aligner, over smaller inputs
TwiceSize == 6
TwiceChunks == 2
TwiceChunkLen == 2

TwiceLists ==
    UNION {{[k \in 1..n |-> ChunkBytes(k, lens[k])] : lens \in [1..n -> 0..TwiceChunkLen]}
           : n \in 0..TwiceChunks}

InitRawTwice ==
    /\ \E a \in 1..MaxAlign, s \in 0..TwiceSize : raw = AlignByteSlice_new(a, s)
    /\ slices = << >> /\ idx = 0 /\ current = 0 /\ starts = << >> /\ returned = << >>
    /\ mem = EmptyMem /\ adjacent \in {"mapped", "unmapped"} /\ pc = "idle"
    /\ IdleTyped /\ IdleIter /\ IdlePad

\* faulty variant: the cursor is kept from the call before, as a field would be
InitialCursor_kept == current

\* `let mut current = 0;`
InitialCursor == 0

\* entry of a call: the local cursor is initialised, the loop starts
CopyFromSlicesEnter ==
    /\ \E chunks \in TwiceLists : slices' = chunks
    /\ idx' = 1 /\ current' = InitialCursor /\ starts' = << >>
    /\ pc' = "loop"
    /\ UNCHANGED <<mem, adjacent, raw, typedVars, iterVars, padVars>>

CopyFromSlicesFirst ==
    /\ pc = "idle"
    /\ CopyFromSlicesEnter
    /\ returned' = returned

\* the caller calls copy_from_slices again after the first call returned
CopyFromSlicesAgain ==
    /\ pc = "done" /\ returned = << >>
    /\ CopyFromSlicesEnter
    /\ returned' = <<[slices |-> slices, starts |-> starts, mem |-> mem, raw |-> raw]>>

NextRawTwice ==
    CopyFromSlicesFirst \/ CopyFromSlicesAgain \/ CopyFromSlicesStep \/ CopyFromSlicesReturn

SpecRawTwice == InitRawTwice /\ [][NextRawTwice]_vars

\* ================================================================ TypedAligner
\* the bytes of a value of type T: distinct per value and per position
Elem(v, s) == [j \in 1..s |-> 10 * v + j]

\* the bytes of a slice &[T], contiguous
RECURSIVE Flatten(_, _)
Flatten(vals, s) ==
    IF vals = << >> THEN << >> ELSE Elem(Head(vals), s) \o Flatten(Tail(vals), s)

Slices == UNION {[1..n -> 1..MaxVal] : n \in 0..MaxN}

\* faulty variant: the padding is computed as in copy_from_slices, `size % alignment`
ElemSize_rem(s, alignment) == s + (s % alignment)

\* `let padding = calc_padding(size_of::<T>(), alignment); size_of::<T>() + padding`
ElemSize(s, alignment) == s + calc_padding(s, alignment)

\* faulty variant: an empty region is rejected too
SizeAligned_nonempty(size, alignment) == size > 0 /\ calc_padding(size, alignment) = 0

\* the condition of `assert!(calc_padding(size, alignment) == 0, ..)`
SizeAligned(size, alignment) == calc_padding(size, alignment) = 0

Align_new(s, alignment, size) == [elem_size |-> ElemSize(s, alignment), size |-> size]

Align_iter_mut == [current |-> 0]

\* faulty variant: the cursor is advanced before the end is tested
AlignIter_next_advance_first(itr, a) ==
    IF itr.current = a.size
    THEN [item |-> None, it |-> [current |-> itr.current + a.elem_size]]
    ELSE [item |-> itr.current, it |-> [current |-> itr.current + a.elem_size]]

\* AlignIter::next: the yielded offset (or None) and the cursor afterwards
AlignIter_next(itr, a) ==
    IF itr.current = a.size
    THEN [item |-> None, it |-> itr]
    ELSE [item |-> itr.current, it |-> [current |-> itr.current + a.elem_size]]

\* a write of `bytes` to `off`, or the memory fault it ends in; w: whether the
\* part inside the region was written before the fault
RawWrite(m, off, bytes, size, adj, w, ok) ==
    IF Overruns(off, Len(bytes), size) /\ adj = "unmapped"
    THEN [mem |-> IF w THEN Store(m, off, InRegionPart(off, bytes, size)) ELSE m,
          pc |-> "killed"]
    ELSE [mem |-> Store(m, off, bytes), pc |-> ok]

\* faulty variant: the block copy is cut at the end of the region
FastPath_clamped(m, a, s, vals, adj, w) ==
    RawWrite(m, 0, InRegionPart(0, Flatten(vals, s), a.size), a.size, adj, w, "copied")

\* faulty variant: the block copy is one element short
FastPath_short(m, a, s, vals, adj, w) ==
    RawWrite(m, 0, Flatten(SubSeq(vals, 1, Len(vals) - 1), s), a.size, adj, w, "copied")

\* `from_raw_parts_mut(self.ptr as *mut T, slice.len()).copy_from_slice(slice)`
FastPath(m, a, s, vals, adj, w) ==
    RawWrite(m, 0, Flatten(vals, s), a.size, adj, w, "copied")

\* `for (i, val) in self.iter_mut().enumerate().take(slice.len()) { *val = slice[i] }`
RECURSIVE SlowLoop(_, _, _, _, _, _, _, _)
SlowLoop(m, a, s, itr, i, vals, adj, w) ==
    IF i > Len(vals) THEN [mem |-> m, pc |-> "copied"]
    ELSE LET n == AlignIter_next(itr, a) IN
         IF n.item = None THEN [mem |-> m, pc |-> "copied"]
         ELSE LET r == RawWrite(m, n.item, Elem(vals[i], s), a.size, adj, w, "copied") IN
              IF r.pc = "killed" THEN r
              ELSE SlowLoop(r.mem, a, s, n.it, i + 1, vals, adj, w)

\* faulty variant: every element is copied with its padding, elem_size bytes
SlowPath_whole_stride(m, a, s, vals, adj, w) ==
    SlowLoop(m, a, a.elem_size, Align_iter_mut, 1, vals, adj, w)

SlowPath(m, a, s, vals, adj, w) == SlowLoop(m, a, s, Align_iter_mut, 1, vals, adj, w)

copy_from_slice(m, a, s, vals, adj, w) ==
    IF a.elem_size = s THEN FastPath(m, a, s, vals, adj, w)
    ELSE SlowPath(m, a, s, vals, adj, w)

InitTyped ==
    /\ tsz \in 1..MaxElem
    /\ al = NoAlign /\ newArgs = NoRaw /\ arg = << >> /\ pre = EmptyMem
    /\ mem = EmptyMem /\ adjacent \in {"mapped", "unmapped"} /\ pc = "start"
    /\ IdleRaw /\ IdleIter /\ IdlePad

\* Align::<T>::new(ptr, alignment, size)
AlignNew ==
    /\ pc = "start"
    /\ \E a \in 1..MaxAlign, size \in 0..MaxSize :
         /\ newArgs' = [alignment |-> a, size |-> size]
         /\ IF SizeAligned(size, a)
            THEN al' = Align_new(tsz, a, size) /\ pc' = "ready"
            ELSE al' = al /\ pc' = "panicked"
    /\ UNCHANGED <<mem, adjacent, tsz, arg, pre, rawVars, iterVars, padVars>>

\* Align::copy_from_slice(slice)
CopyFromSlice ==
    /\ pc = "ready"
    /\ \E vals \in Slices, w \in BOOLEAN :
         LET r == copy_from_slice(mem, al, tsz, vals, adjacent, w) IN
         /\ mem' = r.mem /\ pc' = r.pc
         /\ arg' = vals /\ pre' = mem
    /\ UNCHANGED <<adjacent, tsz, al, newArgs, rawVars, iterVars, padVars>>

\* Align::iter_mut()
IterMut ==
    /\ pc = "ready"
    /\ it' = Align_iter_mut /\ yields' = << >> /\ last' = None /\ nnext' = 0
    /\ cursors' = cursors + 1
    /\ pc' = "iter"
    /\ UNCHANGED <<mem, adjacent, typedVars, rawVars, padVars>>

\* AlignIter::next()
IterNext ==
    /\ pc = "iter" /\ nnext < MaxNext
    /\ LET n == AlignIter_next(it, al) IN
       /\ it' = n.it /\ last' = n.item
       /\ yields' = IF n.item = None THEN yields ELSE Append(yields, n.item)
    /\ nnext' = nnext + 1
    /\ UNCHANGED <<mem, adjacent, pc, cursors, typedVars, rawVars, padVars>>

\* the caller writes a value through the reference the last next() returned
WriteSlot ==
    /\ pc = "iter" /\ last # None
    /\ \E v \in 1..MaxVal, w \in BOOLEAN :
         LET r == RawWrite(mem, last, Elem(v, tsz), al.size, adjacent, w, "iter") IN
         mem' = r.mem /\ pc' = r.pc
    /\ UNCHANGED <<adjacent, typedVars, rawVars, iterVars, padVars>>

NextTyped == AlignNew \/ CopyFromSlice \/ IterMut \/ IterNext \/ WriteSlot

SpecTyped == InitTyped /\ [][NextTyped]_vars

\* ---------------------------------------------------------------- several cursors
MaxCursors == 2

\* Align::iter_mut() once more: after copy_from_slice returned, or when the
\* cursor before is no longer used
IterMutAgain ==
    /\ pc \in {"copied", "iter"} /\ cursors < MaxCursors
    /\ it' = Align_iter_mut /\ yields' = << >> /\ last' = None /\ nnext' = 0
    /\ cursors' = cursors + 1
    /\ pc' = "iter"
    /\ UNCHANGED <<mem, adjacent, typedVars, rawVars, padVars>>

\* the cursor's state does not depend on what is written through it: no WriteSlot
NextCursors == AlignNew \/ CopyFromSlice \/ IterMut \/ IterNext \/ IterMutAgain

SpecCursors == InitTyped /\ [][NextCursors]_vars

\* ---------------------------------------------------------------- used memory
\* the same operations on a destination that already holds data: every byte
\* of the largest region has a value of its own
StaleMem == [o \in 0..(MaxSize - 1) |-> 91 + o]

InitTypedStale ==
    /\ tsz \in 1..MaxElem
    /\ al = NoAlign /\ newArgs = NoRaw /\ arg = << >> /\ pre = StaleMem
    /\ mem = StaleMem /\ adjacent \in {"mapped", "unmapped"} /\ pc = "start"
    /\ IdleRaw /\ IdleIter /\ IdlePad

SpecTypedStale == InitTypedStale /\ [][NextTyped]_vars

\* ---------------------------------------------------------------- claims: pad

\* C10: for every alignment > 0 and every address of the word, address plus
\* calc_padding(address, alignment) is a multiple of the alignment, the padding
\* is in 0 .. alignment-1, it is 0 for an aligned address, and the subtraction
\* `align - adr % align` does not underflow.
C10_PadAligns ==
    padding # None =>
        /\ (adr + padding) % align = 0
        /\ 0 <= padding /\ padding < align
        /\ (adr % align = 0 => padding = 0)
        /\ ~underflow

\* the largest address with an alignment that is no power of two and does not divide it
C10_Witness ==
    /\ pc = "pad" /\ adr = Word - 1 /\ align = Word - 2
    /\ padding = align - 1

\* ---------------------------------------------------------------- claims: RawAligner

\* the offset the specification gives chunk k: every earlier chunk's length
\* plus the padding of the cursor after it
RECURSIVE SpecOffset(_, _, _)
SpecOffset(chunks, k, alignment) ==
    IF k = 1 THEN 0
    ELSE LET e == SpecOffset(chunks, k - 1, alignment) + Len(chunks[k - 1])
         IN  e + calc_padding(e, alignment)

\* C1: in a copy_from_slices call that does not fault, chunk k is copied to the
\* sum over the earlier chunks j of len_j + pad(cursor after chunk j, alignment),
\* so every chunk but the first starts at a multiple of the alignment.
C1_ChunkOffsets ==
    pc = "done" =>
        \A k \in 1..Len(starts) : starts[k] = SpecOffset(slices, k, raw.alignment)

\* C4: during and after a copy_from_slices call the cursor never exceeds size
\* and no byte is copied to an offset >= size.
C4_WithinRegion ==
    /\ pc \in {"loop", "done"} => current <= raw.size
    /\ pc \in {"loop", "done", "panicked", "killed"} =>
           \A o \in DOMAIN mem : o < raw.size

\* memory after chunks 1..n of the call were copied to the offsets in `offs`
RECURSIVE Copied(_, _, _)
Copied(chunks, offs, n) ==
    IF n = 0 THEN EmptyMem
    ELSE Store(Copied(chunks, offs, n - 1), offs[n], chunks[n])

\* C5: the cursor is checked against size before each chunk: a fault happens
\* exactly at the first chunk that starts with cursor > size, the earlier chunks
\* stay written and no later one is; a call whose cursor is <= size at the
\* start of every chunk completes without a fault.
C5_CheckBeforeEachChunk ==
    /\ pc = "panicked" =>
           /\ current > raw.size
           /\ Len(starts) = idx - 1
           /\ mem = Copied(slices, starts, idx - 1)
    /\ pc = "done" =>
           /\ Len(starts) = Len(slices)
           /\ \A k \in 1..Len(starts) : starts[k] <= raw.size
    /\ pc = "killed" => current > raw.size

\* C6: a non-empty chunk whose write begins with the cursor at (or behind) the
\* end of the region faults and is not copied.
C6_FaultAtEndOfRegion ==
    /\ \A k \in 1..Len(starts) : Len(slices[k]) > 0 => starts[k] < raw.size
    /\ pc = "killed" => current < raw.size

\* ---------------------------------------------------------------- claims: TypedAligner

\* C2: the stride is size_of T plus its padding, the smallest multiple of the
\* alignment that is >= size_of T, whatever was called since construction; a
\* copy_from_slice of n values with n * stride <= size returns and has put
\* value i into the size_of T bytes at offset i * stride.
C2_StridePlacement ==
    al # NoAlign =>
        LET a == newArgs.alignment
            stride == al.elem_size
        IN  /\ stride = tsz + ((a - (tsz % a)) % a)
            /\ stride % a = 0 /\ stride >= tsz /\ stride - tsz < a
            /\ pc \in {"copied", "killed"} /\ it = NoIter /\ Len(arg) * stride <= al.size =>
                   /\ pc = "copied"
                   /\ \A i \in 0..(Len(arg) - 1) : \A j \in 1..tsz :
                          Load(mem, i * stride + j - 1) = Elem(arg[i + 1], tsz)[j]

\* three elements of 3 bytes in a region of 12 bytes aligned to 4 (the
\* specification's 12 / 16 / 48 example, scaled by 4)
C2_Witness ==
    /\ pc = "copied" /\ tsz = 3 /\ newArgs.alignment = 4 /\ al.size = 12
    /\ al.elem_size = 4 /\ arg = <<1, 2, 1>>
    /\ Load(mem, 4) = Elem(2, 3)[1] /\ Load(mem, 3) = Untouched

\* C3: a fresh ElementCursor yields exactly floor(size / stride) slots, at the
\* offsets 0, stride, 2*stride, .., and then nothing, also when stride does not
\* divide size.
C3_CursorFinite ==
    it # NoIter =>
        LET slots == al.size \div al.elem_size IN
        /\ Len(yields) <= slots
        /\ \A k \in 1..Len(yields) : yields[k] = (k - 1) * al.elem_size
        /\ last = None /\ nnext > 0 => Len(yields) = slots

\* C7: Align::new faults exactly when size mod alignment # 0; then no aligner
\* exists and no byte was written; otherwise it succeeds for every element size.
C7_ConstructionFault ==
    newArgs # NoRaw =>
        /\ pc = "panicked" <=> newArgs.size % newArgs.alignment # 0
        /\ pc = "panicked" => al = NoAlign /\ mem = EmptyMem
        /\ pc # "panicked" => al # NoAlign /\ al.size = newArgs.size
        /\ pc = "ready" => mem = EmptyMem

\* a region of 6 bytes with alignment 4 is refused
C7_Witness ==
    /\ pc = "panicked" /\ newArgs = [alignment |-> 4, size |-> 6]
    /\ al = NoAlign /\ mem = EmptyMem

C9_SlotsInsideRegion ==
    al # NoAlign =>
        /\ \A k \in 1..Len(yields) : yields[k] + tsz <= al.size
        /\ it # NoIter \/ (pc \in {"copied", "killed"} /\ al.elem_size # tsz) =>
               \A o \in DOMAIN mem : o < (al.size \div al.elem_size) * al.elem_size

\* ---------------------------------------------------------------- claims: RawAligner, one call

\* C14: in a copy_from_slices call that does not fault the cursor never
\* decreases and the chunks do not overlap: chunk k+1 starts at or behind the
\* end of chunk k, and after the call every chunk's bytes stand unmodified at
\* the offset the chunk was copied to.
C14_NoOverlap ==
    pc = "done" =>
        /\ \A k \in 1..(Len(starts) - 1) : starts[k + 1] >= starts[k] + Len(slices[k])
        /\ Len(starts) > 0 => current >= starts[Len(starts)] + Len(slices[Len(starts)])
        /\ \A k \in 1..Len(starts) : \A j \in 1..Len(slices[k]) :
               Load(mem, starts[k] + j - 1) = slices[k][j]

\* three chunks of 3, 1 and 2 bytes with alignment 4 in a region of 12 bytes
C14_Witness ==
    /\ pc = "done" /\ raw = [alignment |-> 4, size |-> 12]
    /\ starts = <<0, 6, 10>> /\ Len(slices[3]) = 2
    /\ Load(mem, 11) = slices[3][2]

\* ---------------------------------------------------------------- claims: RawAligner, two calls

\* the offsets chunk k of the running call covers
Covered(k) == {starts[k] + j - 1 : j \in 1..Len(slices[k])}

\* C13: copy_from_slices keeps no cursor between calls: the aligner's fields
\* are unchanged, every call starts at offset 0, a second call overwrites the
\* data of the first from the start of the region, and the same chunk list
\* copied twice without a fault leaves the memory as copying it once does.
C13_NoCursorKept ==
    /\ Len(starts) > 0 => starts[1] = 0
    /\ returned # << >> =>
           /\ returned[1].raw = raw
           /\ pc = "done" =>
                  /\ \A k \in 1..Len(starts) : \A j \in 1..Len(slices[k]) :
                         Load(mem, starts[k] + j - 1) = slices[k][j]
                  /\ \A o \in DOMAIN mem :
                         o \notin UNION {Covered(k) : k \in 1..Len(starts)} =>
                             mem[o] = Load(returned[1].mem, o)
                  /\ slices = returned[1].slices =>
                         starts = returned[1].starts /\ mem = returned[1].mem

\* the same two chunks copied twice with alignment 3
C13_Witness ==
    /\ pc = "done" /\ returned # << >> /\ raw.alignment = 3
    /\ slices = returned[1].slices /\ Len(slices) = 2
    /\ Len(slices[1]) = 2 /\ Len(slices[2]) = 1
    /\ mem = returned[1].mem /\ Load(mem, 4) = slices[2][1]

\* ---------------------------------------------------------------- claims: TypedAligner, frame

\* offset o lies in the size_of T bytes of one of the first n slots
InElement(o, n) == \E i \in 0..(n - 1) : i * al.elem_size <= o /\ o < i * al.elem_size + tsz

\* C11: copy_from_slice of n values with n * stride <= size changes only the
\* bytes i*stride .. i*stride + size_of T - 1 for i < n: the padding between
\* the elements and the tail of the region from n*stride on keep their values.
C11_Frame ==
    pc = "copied" /\ Len(arg) * al.elem_size <= al.size =>
        \A o \in DOMAIN mem \cup DOMAIN pre :
            ~InElement(o, Len(arg)) => Load(mem, o) = Load(pre, o)

\* two elements of 3 bytes with stride 4 in a used region of 12 bytes: the
\* padding bytes 3 and 7 and the tail 8..11 hold the old data
C11_Witness ==
    /\ pc = "copied" /\ tsz = 3 /\ al = [elem_size |-> 4, size |-> 12]
    /\ arg = <<2, 1>>
    /\ Load(mem, 3) = StaleMem[3] /\ Load(mem, 7) = StaleMem[7]
    /\ Load(mem, 11) = StaleMem[11] /\ Load(mem, 4) = Elem(1, 3)[1]

\* ---------------------------------------------------------------- claims: TypedAligner, bounds

\* the first n values of the argument stand in the first n slots
Written(n) ==
    \A i \in 0..(n - 1) : \A j \in 1..tsz :
        Load(mem, i * al.elem_size + j - 1) = Elem(arg[i + 1], tsz)[j]

\* the bytes of the first n slots' elements
ElementBytes(n) == {i * al.elem_size + j - 1 : i \in 0..(n - 1), j \in 1..tsz}

\* the slow path with stride dividing size: min(len, size / stride) values are
\* written in order, the others are dropped without a fault, nothing is
\* written at an offset >= size
SlowDrops ==
    al.elem_size # tsz /\ al.size % al.elem_size = 0 =>
        LET slots == al.size \div al.elem_size
            n == IF Len(arg) < slots THEN Len(arg) ELSE slots
        IN  /\ pc = "copied"
            /\ Written(n) /\ DOMAIN mem = ElementBytes(n)
            /\ \A o \in DOMAIN mem : o < al.size

C15_CursorState ==
    it # NoIter =>
        /\ it.current = al.elem_size * Len(yields)
        /\ \A k \in 1..Len(yields) : yields[k] = (k - 1) * al.elem_size
        /\ Len(yields) <= nnext
        /\ nnext = 0 => it.current = 0 /\ yields = << >>
        /\ last # None => Len(yields) > 0 /\ last = yields[Len(yields)]
        /\ last = None /\ nnext > 0 =>
               Len(yields) < nnext /\ AlignIter_next(it, al).item = None

\* the second cursor after a copy_from_slice call, on a region of 8 bytes with
\* stride 4: two slots, then nothing
C15_Witness ==
    /\ pc = "iter" /\ cursors = 2 /\ arg # << >>
    /\ al = [elem_size |-> 4, size |-> 8]
    /\ yields = <<0, 4>> /\ nnext = 4 /\ last = None /\ it.current = 8

====
